---- MODULE Spec2Model ----
(***************************************************************************)
(* Model of the status-normalisation and dispute-transition validation     *)
(* code of the router crate:                                               *)
(*   crates/router/src/core/utils.rs            (dispute validators)       *)
(*   crates/router/src/connector/payme/transformers.rs (Payme conversions) *)
(***************************************************************************)
EXTENDS Integers, Sequences, FiniteSets, TLC

\* ------------------------------------------------------------------ bounds
\* The failure metric is an unbounded counter; deliveries that would raise
\* it above MaxFailures are not explored.
MaxFailures == 3
\* Longest `items` vector of a list-query reply that is explored.
MaxItems == 2
\* Longest `items` array of a raw JSON payload that is explored.
MaxPayloadItems == 1
\* Supplied ids of up to MAX_ID_LENGTH + MaxOverLength characters are explored.
MaxOverLength == 2
\* Number of dispute records whose events are validated concurrently.
MaxRecords == 2

\* ------------------------------------------------------------------ types
\* enum DisputeStage
DisputeStage == {"PreDispute", "Dispute", "PreArbitration"}

\* enum DisputeStatus
DisputeStatus ==
    {"DisputeOpened", "DisputeExpired", "DisputeAccepted", "DisputeCancelled",
     "DisputeChallenged", "DisputeWon", "DisputeLost"}

\* A dispute state: the two axes of a stored dispute or of an incoming event.
DisputeState == [stage : DisputeStage, status : DisputeStatus]

VARIABLES
    dispute,        \* stored (dispute_stage, dispute_status) of the dispute
    metric,         \* INCOMING_DISPUTE_WEBHOOK_VALIDATION_FAILURE_METRIC
    prev,           \* stored state the last delivered event was checked against
    event,          \* last delivered event (proposed stage and status)
    result,         \* result of the last validation
    data,           \* item.data: the RouterData handed to a Payme conversion
    resp,           \* item.response: the connector reply handed to it
    op,             \* the conversion that ran ("none" before it runs)
    out,            \* what the conversion returned
    id_call,        \* arguments of the get_or_generate_id call
    id_ret,         \* None before the call returns, Some(result) after
    uuid_call,      \* arguments of the get_or_generate_uuid call
    uuid_ret,       \* None before the call returns, Some(result) after
    tasks           \* per dispute record, the validation running for it

dispute_vars == <<dispute, metric, prev, event, result>>

payme_vars == <<data, resp, op, out>>

id_vars == <<id_call, id_ret, uuid_call, uuid_ret>>

vars == <<dispute, metric, prev, event, result, data, resp, op, out, id_call, id_ret, uuid_call, uuid_ret, tasks>>

\* Option<T>: None is the empty sequence, Some(x) the one-element sequence.
None == <<>>

Some(x) == <<x>>

\* Result<T, E>
Ok(v) == [ok |-> TRUE, val |-> v]

Err(e) == [ok |-> FALSE, err |-> e]

SeqUpTo(S, n) == UNION {[1..k -> S] : k \in 0..n}

\* ------------------------------------------------------ core/utils.rs
\* Dispute Stage can move linearly from PreDispute -> Dispute -> PreArbitration
validate_dispute_stage_regress(prev_dispute_stage, dispute_stage) ==
    CASE prev_dispute_stage = "PreDispute" -> TRUE
      [] prev_dispute_stage = "Dispute" -> TRUE
      [] prev_dispute_stage = "PreArbitration" -> dispute_stage = "PreArbitration"

validate_dispute_stage(prev_dispute_stage, dispute_stage) ==
    CASE prev_dispute_stage = "PreDispute" -> TRUE
      [] prev_dispute_stage = "Dispute" -> ~(dispute_stage = "PreDispute")
      [] prev_dispute_stage = "PreArbitration" -> dispute_stage = "PreArbitration"

\* Dispute status can go from
\* Opened -> (Expired | Accepted | Cancelled | Challenged -> (Won | Lost))
validate_dispute_status_loose(prev_dispute_status, dispute_status) ==
    CASE prev_dispute_status = "DisputeOpened" -> TRUE
      [] prev_dispute_status = "DisputeExpired" -> dispute_status = "DisputeExpired"
      [] prev_dispute_status = "DisputeAccepted" -> dispute_status = "DisputeAccepted"
      [] prev_dispute_status = "DisputeCancelled" -> dispute_status = "DisputeCancelled"
      [] prev_dispute_status = "DisputeChallenged" ->
            dispute_status \in {"DisputeChallenged", "DisputeWon", "DisputeLost",
                                "DisputeExpired"}
      [] prev_dispute_status = "DisputeWon" -> dispute_status = "DisputeWon"
      [] prev_dispute_status = "DisputeLost" -> dispute_status \in {"DisputeLost", "DisputeWon"}

validate_dispute_status_strict(prev_dispute_status, dispute_status) ==
    CASE prev_dispute_status = "DisputeOpened" -> TRUE
      [] prev_dispute_status = "DisputeExpired" -> dispute_status = "DisputeExpired"
      [] prev_dispute_status = "DisputeAccepted" -> dispute_status = "DisputeAccepted"
      [] prev_dispute_status = "DisputeCancelled" -> dispute_status = "DisputeCancelled"
      [] prev_dispute_status = "DisputeChallenged" ->
            dispute_status \in {"DisputeWon", "DisputeLost"}
      [] prev_dispute_status = "DisputeWon" -> dispute_status = "DisputeWon"
      [] prev_dispute_status = "DisputeLost" -> dispute_status = "DisputeLost"

validate_dispute_status(prev_dispute_status, dispute_status) ==
    CASE prev_dispute_status = "DisputeOpened" -> TRUE
      [] prev_dispute_status = "DisputeExpired" -> dispute_status = "DisputeExpired"
      [] prev_dispute_status = "DisputeAccepted" -> dispute_status = "DisputeAccepted"
      [] prev_dispute_status = "DisputeCancelled" -> dispute_status = "DisputeCancelled"
      [] prev_dispute_status = "DisputeChallenged" ->
            dispute_status \in {"DisputeChallenged", "DisputeWon", "DisputeLost"}
      [] prev_dispute_status = "DisputeWon" -> dispute_status = "DisputeWon"
      [] prev_dispute_status = "DisputeLost" -> dispute_status = "DisputeLost"

\* The value validate_dispute_stage_and_dispute_status returns, together with
\* the amount it adds to the failure metric: the closure passed to `when`
\* runs (metric.add(1), then Err) exactly when the predicate is true.
validate_dispute_stage_and_dispute_status_always_status(prev_dispute_stage, prev_dispute_status, dispute_stage, dispute_status) ==
    LET dispute_stage_validation ==
            validate_dispute_stage(prev_dispute_stage, dispute_stage)
        dispute_status_validation ==
            validate_dispute_status(prev_dispute_status, dispute_status)
    IN  IF ~(dispute_stage_validation /\ dispute_status_validation)
        THEN [res |-> "DisputeWebhookValidationFailed", add |-> 1]
        ELSE [res |-> "Ok", add |-> 0]

validate_dispute_stage_and_dispute_status_no_count(prev_dispute_stage, prev_dispute_status, dispute_stage, dispute_status) ==
    LET dispute_stage_validation ==
            validate_dispute_stage(prev_dispute_stage, dispute_stage)
        dispute_status_validation ==
            IF dispute_stage = prev_dispute_stage
            THEN validate_dispute_status(prev_dispute_status, dispute_status)
            ELSE TRUE
    IN  IF ~(dispute_stage_validation /\ dispute_status_validation)
        THEN [res |-> "DisputeWebhookValidationFailed", add |-> 0]
        ELSE [res |-> "Ok", add |-> 0]

validate_dispute_stage_and_dispute_status(prev_dispute_stage, prev_dispute_status, dispute_stage, dispute_status) ==
    LET dispute_stage_validation ==
            validate_dispute_stage(prev_dispute_stage, dispute_stage)
        dispute_status_validation ==
            IF dispute_stage = prev_dispute_stage
            THEN validate_dispute_status(prev_dispute_status, dispute_status)
            ELSE TRUE
    IN  IF ~(dispute_stage_validation /\ dispute_status_validation)
        THEN [res |-> "DisputeWebhookValidationFailed", add |-> 1]
        ELSE [res |-> "Ok", add |-> 0]

\* ------------------------------------------- connector/payme/transformers.rs
\* enum SaleStatus
SaleStatus ==
    {"Initial", "Completed", "Refunded", "PartialRefund", "Authorized",
     "Voided", "PartialVoid", "Failed", "Chargeback"}

\* Identifiers the connector may send.
SaleIds == {"sale_1", "sale_2"}

TransactionIds == {"txn_1", "txn_2"}

BuyerKeys == {"buyer_key_1"}

\* impl From<SaleStatus> for enums::AttemptStatus
AttemptStatus_from_chargeback_charged(item) ==
    CASE item = "Initial" -> "Authorizing"
      [] item = "Completed" -> "Charged"
      [] item \in {"Refunded", "PartialRefund"} -> "AutoRefunded"
      [] item = "Authorized" -> "Authorized"
      [] item \in {"Voided", "PartialVoid"} -> "Voided"
      [] item = "Failed" -> "Failure"
      [] item = "Chargeback" -> "Charged"

AttemptStatus_from(item) ==
    CASE item = "Initial" -> "Authorizing"
      [] item = "Completed" -> "Charged"
      [] item \in {"Refunded", "PartialRefund"} -> "AutoRefunded"
      [] item = "Authorized" -> "Authorized"
      [] item \in {"Voided", "PartialVoid"} -> "Voided"
      [] item = "Failed" -> "Failure"
      [] item = "Chargeback" -> "AutoRefunded"

\* impl TryFrom<SaleStatus> for enums::RefundStatus
RefundStatus_try_from_chargeback_success(sale_status) ==
    CASE sale_status \in {"Refunded", "PartialRefund", "Chargeback"} -> Ok("Success")
      [] sale_status = "Failed" -> Ok("Failure")
      [] sale_status \in {"Initial", "Completed", "Authorized", "Voided", "PartialVoid"}
            -> Err("ResponseHandlingFailed")

RefundStatus_try_from(sale_status) ==
    CASE sale_status \in {"Refunded", "PartialRefund"} -> Ok("Success")
      [] sale_status = "Failed" -> Ok("Failure")
      [] sale_status \in {"Initial", "Completed", "Authorized", "Voided",
                          "PartialVoid", "Chargeback"}
            -> Err("ResponseHandlingFailed")

\* struct PaymeMetadata
PaymeMetadata(payme_transaction_id) ==
    [payme_transaction_id |-> payme_transaction_id]

\* serde_json::to_value of a PaymeMetadata: a JSON object with the one string
\* member; serialising a struct of one String has no failing case.
serde_json_to_value(metadata) ==
    Ok([json_object |-> metadata])

\* struct MandateReference
MandateReference(connector_mandate_id, payment_method_id) ==
    [connector_mandate_id |-> connector_mandate_id,
     payment_method_id |-> payment_method_id]

\* PaymentsResponseData::TransactionResponse
TransactionResponse(resource_id, mandate_reference, connector_metadata) ==
    [resource_id |-> [ConnectorTransactionId |-> resource_id],
     redirection_data |-> None,
     mandate_reference |-> mandate_reference,
     connector_metadata |-> connector_metadata,
     network_txn_id |-> None,
     connector_response_reference_id |-> None]

\* struct RefundsResponseData
RefundsResponseData(connector_refund_id, refund_status) ==
    [connector_refund_id |-> connector_refund_id,
     refund_status |-> refund_status]

\* The record expression of the webhook-push conversion (Ok(Self { .. })),
\* given what serde_json::to_value returned for the metadata: `?` turns its
\* error into ResponseHandlingFailed before the record is built.
RouterData_from_PaymePaySaleResponse_with_swallowed_error(item, to_value) ==
    Ok([item.data EXCEPT
        !.status = AttemptStatus_from(item.response.sale_status),
        !.response = Ok(TransactionResponse(
            item.response.payme_sale_id,
            IF item.response.buyer_key = None
            THEN None
            ELSE Some(MandateReference(Some(item.response.buyer_key[1]), None)),
            IF to_value.ok THEN Some(to_value.val) ELSE None))])

RouterData_from_PaymePaySaleResponse_with_kept_mandate(item, to_value) ==
    IF ~to_value.ok
    THEN Err("ResponseHandlingFailed")
    ELSE Ok([item.data EXCEPT
            !.status = AttemptStatus_from(item.response.sale_status),
            !.response = Ok(TransactionResponse(
                item.response.payme_sale_id,
                IF item.response.buyer_key = None
                THEN (IF item.data.response.ok
                      THEN item.data.response.val.mandate_reference
                      ELSE None)
                ELSE Some(MandateReference(
                         Some(item.response.buyer_key[1]), None)),
                Some(to_value.val)))])

RouterData_from_PaymePaySaleResponse_with_transaction_id(item, to_value) ==
    IF ~to_value.ok
    THEN Err("ResponseHandlingFailed")
    ELSE Ok([item.data EXCEPT
            !.status = AttemptStatus_from(item.response.sale_status),
            !.response = Ok(TransactionResponse(
                item.response.payme_transaction_id,
                IF item.response.buyer_key = None
                THEN None
                ELSE Some(MandateReference(
                         Some(item.response.buyer_key[1]), None)),
                Some(to_value.val)))])

RouterData_from_PaymePaySaleResponse_with(item, to_value) ==
    IF ~to_value.ok
    THEN Err("ResponseHandlingFailed")
    ELSE Ok([item.data EXCEPT
            !.status = AttemptStatus_from(item.response.sale_status),
            !.response = Ok(TransactionResponse(
                item.response.payme_sale_id,
                IF item.response.buyer_key = None
                THEN None
                ELSE Some(MandateReference(
                         Some(item.response.buyer_key[1]), None)),
                Some(to_value.val)))])

\* impl TryFrom<ResponseRouterData<F, PaymePaySaleResponse, T, PaymentsResponseData>>
\* (the webhook-push path)
RouterData_try_from_PaymePaySaleResponse(item) ==
    RouterData_from_PaymePaySaleResponse_with(
        item,
        serde_json_to_value(PaymeMetadata(item.response.payme_transaction_id)))

\* impl TryFrom<ResponseRouterData<F, SaleQueryResponse, T, PaymentsResponseData>>
\* (the PSync list-query path)
RouterData_try_from_SaleQueryResponse_empty_no_update(item) ==
    IF item.response.items = <<>>
    THEN Ok(item.data)
    ELSE LET transaction_response == item.response.items[1]
         IN  Ok([item.data EXCEPT
                !.status = AttemptStatus_from(transaction_response.sale_status),
                !.response = Ok(TransactionResponse(
                    transaction_response.sale_payme_id, None, None))])

RouterData_try_from_SaleQueryResponse_keeps_mandate(item) ==
    IF item.response.items = <<>>
    THEN Err("ResponseHandlingFailed")
    ELSE LET transaction_response == item.response.items[1]
         IN  Ok([item.data EXCEPT
                !.status = AttemptStatus_from(transaction_response.sale_status),
                !.response = Ok(TransactionResponse(
                    transaction_response.sale_payme_id,
                    IF item.data.response.ok
                    THEN item.data.response.val.mandate_reference
                    ELSE None,
                    None))])

RouterData_try_from_SaleQueryResponse(item) ==
    IF item.response.items = <<>>
    THEN Err("ResponseHandlingFailed")
    ELSE LET transaction_response == item.response.items[1]
         IN  Ok([item.data EXCEPT
                !.status = AttemptStatus_from(transaction_response.sale_status),
                !.response = Ok(TransactionResponse(
                    transaction_response.sale_payme_id, None, None))])

\* impl TryFrom<RefundsResponseRouterData<Execute, PaymeRefundResponse>>
RefundsRouterData_try_from_PaymeRefundResponse_sets_status(item) ==
    LET refund_status == RefundStatus_try_from(item.response.sale_status)
    IN  IF ~refund_status.ok
        THEN Err(refund_status.err)
        ELSE Ok([item.data EXCEPT
                !.status = AttemptStatus_from(item.response.sale_status),
                !.response = Ok(RefundsResponseData(
                    item.response.payme_transaction_id, refund_status.val))])

RefundsRouterData_try_from_PaymeRefundResponse(item) ==
    LET refund_status == RefundStatus_try_from(item.response.sale_status)
    IN  IF ~refund_status.ok
        THEN Err(refund_status.err)
        ELSE Ok([item.data EXCEPT
                !.response = Ok(RefundsResponseData(
                    item.response.payme_transaction_id, refund_status.val))])

\* impl TryFrom<ResponseRouterData<F, PaymeQueryTransactionResponse, T,
\*                                 RefundsResponseData>>   (the RSync path)
RouterData_try_from_PaymeQueryTransactionResponse_last_item(item) ==
    IF item.response.items = <<>>
    THEN Err("ResponseHandlingFailed")
    ELSE LET pay_sale_response == item.response.items[Len(item.response.items)]
             refund_status == RefundStatus_try_from(pay_sale_response.sale_status)
         IN  IF ~refund_status.ok
             THEN Err(refund_status.err)
             ELSE Ok([item.data EXCEPT
                     !.response = Ok(RefundsResponseData(
                         pay_sale_response.payme_transaction_id,
                         refund_status.val))])

RouterData_try_from_PaymeQueryTransactionResponse(item) ==
    IF item.response.items = <<>>
    THEN Err("ResponseHandlingFailed")
    ELSE LET pay_sale_response == item.response.items[1]
             refund_status == RefundStatus_try_from(pay_sale_response.sale_status)
         IN  IF ~refund_status.ok
             THEN Err(refund_status.err)
             ELSE Ok([item.data EXCEPT
                     !.response = Ok(RefundsResponseData(
                         pay_sale_response.payme_transaction_id,
                         refund_status.val))])

\* ------------------------------------------------------------ dispute flow
NoEvent == [stage |-> "PreDispute", status |-> "DisputeOpened"]

DisputeInit ==
    /\ dispute = [stage |-> "PreDispute", status |-> "DisputeOpened"]
    /\ metric = 0
    /\ prev = NoEvent
    /\ event = NoEvent
    /\ result = "None"

\* No id is being validated or generated.
IdIdle ==
    /\ id_call = None
    /\ id_ret = None
    /\ uuid_call = None
    /\ uuid_ret = None

\* No dispute record is being validated concurrently.
TasksIdle == tasks = <<>>

\* No Payme conversion is under way.
PaymeIdle ==
    /\ data = None
    /\ resp = None
    /\ op = "idle"
    /\ out = None

\* One dispute webhook delivery: the event is validated against the stored
\* state; the stored state is replaced by the event only when the validation
\* returned Ok, and the failure metric grows by what the validator added.
DisputeWebhook(e) ==
    LET r == validate_dispute_stage_and_dispute_status(
                 dispute.stage, dispute.status, e.stage, e.status)
    IN  /\ metric + r.add <= MaxFailures
        /\ prev' = dispute
        /\ event' = e
        /\ result' = r.res
        /\ metric' = metric + r.add
        /\ dispute' = IF r.res = "Ok" THEN e ELSE dispute
        /\ UNCHANGED <<payme_vars, id_vars, tasks>>

Init == DisputeInit /\ PaymeIdle /\ IdIdle /\ TasksIdle

Next == \E e \in DisputeState : DisputeWebhook(e)

Spec == Init /\ [][Next]_vars

\* ------------------------------------------------------ Payme conversions
\* The RouterData records (item.data) a payment conversion may be handed:
\* before the first reply the response slot holds the default error, later
\* it holds the transaction response of an earlier reply.
ErrorResponseDefault == [error_response |-> "default"]

PaymentRecords ==
    [merchant_id : {"merchant_1"},
     payment_id : {"pay_1", "pay_2"},
     attempt_id : {"attempt_1"},
     connector : {"payme"},
     status : {"Started", "Authorizing"},
     response : {Err(ErrorResponseDefault),
                 Ok(TransactionResponse(
                     "sale_0",
                     Some(MandateReference(Some("buyer_key_0"), None)),
                     Some([json_object |-> PaymeMetadata("txn_0")])))}]

\* The RouterData records construct_refund_router_data builds: the attempt's
\* status and identity, and a response slot holding the refund as stored.
RefundRecords ==
    [merchant_id : {"merchant_1"},
     payment_id : {"pay_1", "pay_2"},
     attempt_id : {"attempt_1"},
     connector : {"payme"},
     status : {"Charged", "AutoRefunded"},
     response : {Ok(RefundsResponseData("", "Pending")),
                 Ok(RefundsResponseData("txn_0", "Pending"))}]

\* The connector replies, by shape.
PaymePaySaleResponse ==
    [sale_status : SaleStatus,
     payme_sale_id : SaleIds,
     payme_transaction_id : TransactionIds,
     buyer_key : {None} \cup {Some(k) : k \in BuyerKeys}]

SaleQuery == [sale_status : SaleStatus, sale_payme_id : SaleIds]

SaleQueryResponse == [items : SeqUpTo(SaleQuery, MaxItems)]

PaymeRefundResponse ==
    [sale_status : SaleStatus, payme_transaction_id : TransactionIds]

TransactionQuery ==
    [sale_status : SaleStatus, payme_transaction_id : TransactionIds]

PaymeQueryTransactionResponse == [items : SeqUpTo(TransactionQuery, MaxItems)]

Shaped(shape, S) == {[shape |-> shape, body |-> b] : b \in S}

PaymeInit ==
    /\ op = "none"
    /\ out = None
    /\ \/ /\ data \in PaymentRecords
          /\ resp \in Shaped("PaymePaySaleResponse", PaymePaySaleResponse)
                      \cup Shaped("SaleQueryResponse", SaleQueryResponse)
       \/ /\ data \in RefundRecords
          /\ resp \in Shaped("PaymeRefundResponse", PaymeRefundResponse)
                      \cup Shaped("PaymeQueryTransactionResponse",
                                  PaymeQueryTransactionResponse)

ResponseRouterData == [response |-> resp.body, data |-> data]

\* The webhook-push conversion runs on the reply.
PaySaleConversion ==
    /\ op = "none"
    /\ resp.shape = "PaymePaySaleResponse"
    /\ out' = RouterData_try_from_PaymePaySaleResponse(ResponseRouterData)
    /\ op' = "PaymePaySaleResponse"
    /\ UNCHANGED <<data, resp, dispute_vars, id_vars, tasks>>

\* The PSync conversion runs on the reply.
SaleQueryConversion ==
    /\ op = "none"
    /\ resp.shape = "SaleQueryResponse"
    /\ out' = RouterData_try_from_SaleQueryResponse(ResponseRouterData)
    /\ op' = "SaleQueryResponse"
    /\ UNCHANGED <<data, resp, dispute_vars, id_vars, tasks>>

\* The refund-execute conversion runs on the reply.
RefundExecuteConversion ==
    /\ op = "none"
    /\ resp.shape = "PaymeRefundResponse"
    /\ out' = RefundsRouterData_try_from_PaymeRefundResponse(ResponseRouterData)
    /\ op' = "PaymeRefundResponse"
    /\ UNCHANGED <<data, resp, dispute_vars, id_vars, tasks>>

\* The RSync conversion runs on the reply.
RefundSyncConversion ==
    /\ op = "none"
    /\ resp.shape = "PaymeQueryTransactionResponse"
    /\ out' = RouterData_try_from_PaymeQueryTransactionResponse(ResponseRouterData)
    /\ op' = "PaymeQueryTransactionResponse"
    /\ UNCHANGED <<data, resp, dispute_vars, id_vars, tasks>>

PaymeSpecInit == DisputeInit /\ PaymeInit /\ IdIdle /\ TasksIdle

PaymeNext ==
    \/ PaySaleConversion
    \/ SaleQueryConversion
    \/ RefundExecuteConversion
    \/ RefundSyncConversion

PaymeSpec == PaymeSpecInit /\ [][PaymeNext]_vars

\* ------------------------------------------------------ inbound payloads
\* enum NotifyType
NotifyType ==
    {"SaleComplete", "SaleAuthorized", "Refund", "SaleFailure",
     "SaleChargeback", "SaleChargebackRefund"}

\* struct WebhookEventDataResource
WebhookEventDataResource ==
    [sale_status : SaleStatus,
     payme_signature : {"signature_1"},
     buyer_key : {None} \cup {Some(k) : k \in BuyerKeys},
     notify_type : NotifyType,
     payme_sale_id : SaleIds,
     payme_transaction_id : TransactionIds]

\* impl From<WebhookEventDataResource> for PaymePaySaleResponse
PaymePaySaleResponse_from_without_buyer_key(value) ==
    [sale_status |-> value.sale_status,
     payme_sale_id |-> value.payme_sale_id,
     payme_transaction_id |-> value.payme_transaction_id,
     buyer_key |-> None]

PaymePaySaleResponse_from(value) ==
    [sale_status |-> value.sale_status,
     payme_sale_id |-> value.payme_sale_id,
     payme_transaction_id |-> value.payme_transaction_id,
     buyer_key |-> value.buyer_key]

\* #[serde(rename_all = "kebab-case")] on SaleStatus: the wire tag of each
\* variant.
SaleStatusTag ==
    [s \in SaleStatus |->
        CASE s = "Initial" -> "initial"
          [] s = "Completed" -> "completed"
          [] s = "Refunded" -> "refunded"
          [] s = "PartialRefund" -> "partial-refund"
          [] s = "Authorized" -> "authorized"
          [] s = "Voided" -> "voided"
          [] s = "PartialVoid" -> "partial-void"
          [] s = "Failed" -> "failed"
          [] s = "Chargeback" -> "chargeback"]

WireTags == {SaleStatusTag[s] : s \in SaleStatus}

\* Deserialize for SaleStatus: the variant whose tag is read, or an error.
SaleStatus_deserialize(tag) ==
    IF tag \in WireTags
    THEN Ok(CHOOSE s \in SaleStatus : SaleStatusTag[s] = tag)
    ELSE Err("unknown variant")

\* A JSON object of the connector: each member is absent (None) or present.
\* Members no shape names are ignored by the derived deserializers.
RawSaleQuery == [sale_status : WireTags, sale_payme_id : SaleIds]

Payloads ==
    [sale_status : {None} \cup {Some(t) : t \in WireTags \cup {"unknown-status"}},
     payme_sale_id : {None} \cup {Some(i) : i \in SaleIds},
     payme_transaction_id : {None} \cup {Some(i) : i \in TransactionIds},
     buyer_key : {None} \cup {Some(k) : k \in BuyerKeys},
     items : {None} \cup {Some(l) : l \in SeqUpTo(RawSaleQuery, MaxPayloadItems)}]

\* Deserialize for PaymePaySaleResponse: sale_status, payme_sale_id and
\* payme_transaction_id are required, buyer_key is an Option.
PaymePaySaleResponse_deserialize(payload) ==
    IF \/ payload.sale_status = None
       \/ payload.payme_sale_id = None
       \/ payload.payme_transaction_id = None
    THEN Err("missing field")
    ELSE LET sale_status == SaleStatus_deserialize(payload.sale_status[1])
         IN  IF ~sale_status.ok
             THEN Err(sale_status.err)
             ELSE Ok([sale_status |-> sale_status.val,
                      payme_sale_id |-> payload.payme_sale_id[1],
                      payme_transaction_id |-> payload.payme_transaction_id[1],
                      buyer_key |-> payload.buyer_key])

\* Deserialize for SaleQueryResponse: items is required.
SaleQueryResponse_deserialize(payload) ==
    IF payload.items = None
    THEN Err("missing field")
    ELSE LET raw == payload.items[1]
         IN  Ok([items |->
                   [i \in 1..Len(raw) |->
                       [sale_status |-> SaleStatus_deserialize(raw[i].sale_status).val,
                        sale_payme_id |-> raw[i].sale_payme_id]]])

\* #[serde(untagged)] enum PaymePaymentsResponse: the variants are tried in
\* the order of declaration and the first that deserializes is taken.
PaymePaymentsResponse_deserialize_query_first(payload) ==
    LET pay_sale == PaymePaySaleResponse_deserialize(payload)
        sale_query == SaleQueryResponse_deserialize(payload)
    IN  IF sale_query.ok
        THEN Ok([variant |-> "SaleQueryResponse", response |-> sale_query.val])
        ELSE IF pay_sale.ok
        THEN Ok([variant |-> "PaymePaySaleResponse", response |-> pay_sale.val])
        ELSE Err("data did not match any variant")

PaymePaymentsResponse_deserialize(payload) ==
    LET pay_sale == PaymePaySaleResponse_deserialize(payload)
        sale_query == SaleQueryResponse_deserialize(payload)
    IN  IF pay_sale.ok
        THEN Ok([variant |-> "PaymePaySaleResponse", response |-> pay_sale.val])
        ELSE IF sale_query.ok
        THEN Ok([variant |-> "SaleQueryResponse", response |-> sale_query.val])
        ELSE Err("data did not match any variant")

\* impl TryFrom<ResponseRouterData<F, PaymePaymentsResponse, T, PaymentsResponseData>>
RouterData_try_from_PaymePaymentsResponse(item) ==
    CASE item.response.variant = "PaymePaySaleResponse" ->
            RouterData_try_from_PaymePaySaleResponse(
                [response |-> item.response.response, data |-> item.data])
      [] item.response.variant = "SaleQueryResponse" ->
            RouterData_try_from_SaleQueryResponse(
                [response |-> item.response.response, data |-> item.data])

\* The payment response resolver: the payload is deserialized as
\* PaymePaymentsResponse and the result converted; a payload that matches no
\* shape fails with ResponseHandlingFailed.
resolve_payments_response(payload, previous) ==
    LET response == PaymePaymentsResponse_deserialize(payload)
    IN  IF ~response.ok
        THEN Err("ResponseHandlingFailed")
        ELSE RouterData_try_from_PaymePaymentsResponse(
                 [response |-> response.val, data |-> previous])

InboundInit ==
    /\ op = "none"
    /\ out = None
    /\ data \in PaymentRecords
    /\ resp \in Shaped("WebhookEventDataResource", WebhookEventDataResource)
                \cup Shaped("payload", Payloads)

\* A webhook body is turned into the pay-sale reply shape.
WebhookIntoPaySaleResponse ==
    /\ op = "none"
    /\ resp.shape = "WebhookEventDataResource"
    /\ out' = PaymePaySaleResponse_from(resp.body)
    /\ op' = "WebhookEventDataResource"
    /\ UNCHANGED <<data, resp, dispute_vars, id_vars, tasks>>

\* A raw payload is resolved and converted.
ResolvePaymentsResponse ==
    /\ op = "none"
    /\ resp.shape = "payload"
    /\ out' = resolve_payments_response(resp.body, data)
    /\ op' = "PaymePaymentsResponse"
    /\ UNCHANGED <<data, resp, dispute_vars, id_vars, tasks>>

InboundSpecInit == DisputeInit /\ InboundInit /\ IdIdle /\ TasksIdle

InboundNext ==
    \/ WebhookIntoPaySaleResponse
    \/ ResolvePaymentsResponse

InboundSpec == InboundSpecInit /\ [][InboundNext]_vars

\* ------------------------------------------------------ reference ids
\* consts::MAX_ID_LENGTH and consts::ID_LENGTH
MAX_ID_LENGTH == 64

ID_LENGTH == 20

\* A string is the sequence of its characters; Repeat(c, n) is c written n
\* times.
Repeat(c, n) == [i \in 1..n |-> c]

\* generate_id(length, prefix): the ids it may return, the prefix, a '_' and
\* `length` random characters (the test test_generate_id: "ref" gives
\* ID_LENGTH + 4 characters).
generate_id(length, prefix) ==
    {prefix \o <<"_">> \o Repeat(c, length) : c \in {"a", "7"}}

\* fn invalid_id_format_error
invalid_id_format_error(key) ==
    [InvalidDataFormat |->
        [field_name |-> key,
         expected_format |->
            <<"length should be less than ", MAX_ID_LENGTH, " characters">>]]

\* pub fn validate_id
validate_id_off_by_one(id, key) ==
    IF Len(id) >= MAX_ID_LENGTH
    THEN Err(invalid_id_format_error(key))
    ELSE Ok(id)

validate_id(id, key) ==
    IF Len(id) > MAX_ID_LENGTH
    THEN Err(invalid_id_format_error(key))
    ELSE Ok(id)

\* pub fn get_or_generate_id: the results it may return.
get_or_generate_id_max_length(key, provided_id, prefix) ==
    IF provided_id = None
    THEN {Ok(id) : id \in generate_id(MAX_ID_LENGTH, prefix)}
    ELSE {validate_id(provided_id[1], key)}

get_or_generate_id(key, provided_id, prefix) ==
    IF provided_id = None
    THEN {Ok(id) : id \in generate_id(ID_LENGTH, prefix)}
    ELSE {validate_id(provided_id[1], key)}

\* Uuid::parse_str: the textual forms it accepts are the simple form (32
\* hexadecimal digits), the hyphenated form (36 characters, groups of 8, 4,
\* 4, 4 and 12 digits), the hyphenated form in braces (38) and the
\* hyphenated form after "urn:uuid:" (45); digits of either case.
HexDigits ==
    {"0", "1", "2", "3", "4", "5", "6", "7", "8", "9",
     "a", "b", "c", "d", "e", "f", "A", "B", "C", "D", "E", "F"}

HyphenPositions == {9, 14, 19, 24}

UrnPrefix == <<"u", "r", "n", ":", "u", "u", "i", "d", ":">>

IsSimple(s) == Len(s) = 32 /\ \A i \in 1..32 : s[i] \in HexDigits

IsHyphenated(s) ==
    /\ Len(s) = 36
    /\ \A i \in 1..36 :
          IF i \in HyphenPositions THEN s[i] = "-" ELSE s[i] \in HexDigits

Uuid_parse_str(input) ==
    IF \/ IsSimple(input)
       \/ IsHyphenated(input)
       \/ /\ Len(input) = 38
          /\ input[1] = "{"
          /\ input[38] = "}"
          /\ IsHyphenated(SubSeq(input, 2, 37))
       \/ /\ Len(input) = 45
          /\ SubSeq(input, 1, 9) = UrnPrefix
          /\ IsHyphenated(SubSeq(input, 10, 45))
    THEN Ok("Uuid")
    ELSE Err("uuid::Error")

\* The hyphenated text of the uuid whose digits are all c.
Hyphenated(c) == [i \in 1..36 |-> IF i \in HyphenPositions THEN "-" ELSE c]

\* generate_uuid(): the texts it may return, a fresh uuid in hyphenated form.
generate_uuid == {Hyphenated(c) : c \in {"4", "b"}}

\* pub fn validate_uuid
validate_uuid_length_only(uuid, key) ==
    IF Len(uuid) > MAX_ID_LENGTH
    THEN Err(invalid_id_format_error(key))
    ELSE Ok(uuid)

validate_uuid(uuid, key) ==
    IF Uuid_parse_str(uuid).ok /\ ~(Len(uuid) > MAX_ID_LENGTH)
    THEN Ok(uuid)
    ELSE Err(invalid_id_format_error(key))

\* pub fn get_or_generate_uuid: the results it may return.
get_or_generate_uuid_requires_id(key, provided_id) ==
    IF provided_id = None
    THEN {Err(invalid_id_format_error(key))}
    ELSE {validate_uuid(provided_id[1], key)}

get_or_generate_uuid(key, provided_id) ==
    IF provided_id = None
    THEN {Ok(uuid) : uuid \in generate_uuid}
    ELSE {validate_uuid(provided_id[1], key)}

\* The uuid-typed ids a caller may supply: every accepted form, texts that
\* miss a form by one character, by a digit or by a hyphen, and texts around
\* and above MAX_ID_LENGTH characters.
ProvidedUuids ==
    {Hyphenated("a"), Hyphenated("F"), Repeat("0", 32), Repeat("C", 32),
     <<"{">> \o Hyphenated("1") \o <<"}">>, UrnPrefix \o Hyphenated("e"),
     <<>>, Hyphenated("g"), Repeat("a", 36), Repeat("a", 31), Repeat("a", 33),
     [Hyphenated("a") EXCEPT ![9] = "a", ![10] = "-"],
     <<"{">> \o Hyphenated("1") \o <<"{">>, <<"(">> \o Hyphenated("1") \o <<")">>,
     <<"{">> \o Repeat("2", 32) \o <<"}">>,
     Hyphenated("a") \o <<"-">>, UrnPrefix \o Repeat("e", 36),
     <<"u", "r", "n", ":", "u", "u", "i", "d", "-">> \o Hyphenated("e"),
     Hyphenated("a") \o Hyphenated("a")}
    \cup {Repeat("a", n) : n \in (MAX_ID_LENGTH - 1)..(MAX_ID_LENGTH + MaxOverLength)}

\* The ids a caller may supply, the keys and the prefixes.
ProvidedIds ==
    {Repeat(c, n) : c \in {"a", "b"}, n \in 0..(MAX_ID_LENGTH + MaxOverLength)}

Keys == {"payment_id", "refund_id"}

Prefixes == {<<>>, <<"r", "e", "f">>, <<"p", "a", "y", "_", "x">>}

IdInit ==
    /\ id_ret = None
    /\ id_call \in [key : Keys,
                    provided_id : {None} \cup {Some(id) : id \in ProvidedIds},
                    prefix : Prefixes]
    /\ uuid_ret = None
    /\ uuid_call \in [key : Keys,
                      provided_id : {None} \cup {Some(id) : id \in ProvidedUuids}]

\* The call get_or_generate_id(key, provided_id, prefix) returns.
GetOrGenerateId ==
    /\ id_ret = None
    /\ \E r \in get_or_generate_id(id_call.key, id_call.provided_id, id_call.prefix) :
          id_ret' = Some(r)
    /\ UNCHANGED <<id_call, uuid_call, uuid_ret, dispute_vars, payme_vars, tasks>>

\* The call get_or_generate_uuid(key, provided_id) returns.
GetOrGenerateUuid ==
    /\ uuid_ret = None
    /\ \E r \in get_or_generate_uuid(uuid_call.key, uuid_call.provided_id) :
          uuid_ret' = Some(r)
    /\ UNCHANGED <<uuid_call, id_call, id_ret, dispute_vars, payme_vars, tasks>>

IdSpecInit == DisputeInit /\ PaymeIdle /\ IdInit /\ TasksIdle

IdNext == GetOrGenerateId \/ GetOrGenerateUuid

IdSpec == IdSpecInit /\ [][IdNext]_vars

\* ------------------------------------------- concurrent dispute validation
\* Events of different dispute records are validated in parallel, one event
\* per record; all of them share the one failure metric.
Records == 1..MaxRecords

\* metrics::INCOMING_DISPUTE_WEBHOOK_VALIDATION_FAILURE_METRIC.add(&CONTEXT, value, &[]):
\* the counter after the call, one indivisible increment.
metric_add_overwrite(counter, value) == value

metric_add(counter, value) == counter + value

TasksInit ==
    tasks \in [Records -> [dispute : DisputeState,
                           pc : {"validate"},
                           result : {"None"},
                           add : {0}]]

\* validate_dispute_stage_and_dispute_status is entered for record r with
\* event e and evaluates the predicate of `when`: when it is false the call
\* returns Ok(()) and the event becomes the stored state, when it is true
\* the closure is entered.
ValidateEvent(r, e) ==
    /\ tasks[r].pc = "validate"
    /\ LET v == validate_dispute_stage_and_dispute_status(tasks[r].dispute.stage, tasks[r].dispute.status, e.stage, e.status)
       IN  tasks' = [tasks EXCEPT ![r] =
                IF v.res = "Ok"
                THEN [dispute |-> e, pc |-> "done", result |-> v.res, add |-> v.add]
                ELSE [dispute |-> tasks[r].dispute, pc |-> "closure",
                      result |-> v.res, add |-> v.add]]
    /\ UNCHANGED <<dispute_vars, payme_vars, id_vars>>

\* The closure of `when` for record r: the metric add, then the error return.
ClosureAddAndFail(r) ==
    /\ tasks[r].pc = "closure"
    /\ metric' = metric_add(metric, tasks[r].add)
    /\ tasks' = [tasks EXCEPT ![r].pc = "done"]
    /\ UNCHANGED <<dispute, prev, event, result, payme_vars, id_vars>>

ConcurrentSpecInit == DisputeInit /\ PaymeIdle /\ IdIdle /\ TasksInit

ConcurrentNext ==
    \E r \in Records :
        \/ \E e \in DisputeState : ValidateEvent(r, e)
        \/ ClosureAddAndFail(r)

ConcurrentSpec == ConcurrentSpecInit /\ [][ConcurrentNext]_vars

\* ================================================================ claims
\* ------------------------------------------------------ dispute validation
StageRank(s) ==
    CASE s = "PreDispute" -> 0 [] s = "Dispute" -> 1 [] s = "PreArbitration" -> 2

St(stage, status) == [stage |-> stage, status |-> status]

Delivered == result # "None"

\* The acceptance condition as the specification states it.
Accepts(p, e) ==
    /\ validate_dispute_stage(p.stage, e.stage)
    /\ (e.stage # p.stage \/ validate_dispute_status(p.status, e.status))

\* The result the validator gives for a previous state and an event.
Verdict(p, e) ==
    validate_dispute_stage_and_dispute_status(p.stage, p.status, e.stage, e.status).res

\* C1: a delivery succeeds iff the stage check holds and (the stage changed or
\* the status check holds), and otherwise fails with
\* DisputeWebhookValidationFailed; the four example transitions of the
\* specification get the stated verdicts.
C1_ValidIffStageAndStatus ==
    /\ Delivered =>
          /\ result \in {"Ok", "DisputeWebhookValidationFailed"}
          /\ (result = "Ok") <=> Accepts(prev, event)
    /\ \A p, e \in DisputeState :
          Verdict(p, e) = IF Accepts(p, e) THEN "Ok"
                          ELSE "DisputeWebhookValidationFailed"
    /\ Verdict(St("PreDispute", "DisputeOpened"), St("PreDispute", "DisputeAccepted")) = "Ok"
    /\ Verdict(St("Dispute", "DisputeChallenged"), St("Dispute", "DisputeWon")) = "Ok"
    /\ Verdict(St("Dispute", "DisputeExpired"), St("Dispute", "DisputeExpired")) = "Ok"
    /\ Verdict(St("Dispute", "DisputeChallenged"), St("Dispute", "DisputeExpired"))
          = "DisputeWebhookValidationFailed"

C1_Witness ==
    /\ prev = St("Dispute", "DisputeChallenged")
    /\ event = St("Dispute", "DisputeExpired")
    /\ result = "DisputeWebhookValidationFailed"

\* C2: in no step does the stored stage move to an earlier stage in the
\* order PreDispute < Dispute < PreArbitration.
C2_StageNeverRegresses ==
    [][StageRank(dispute'.stage) >= StageRank(dispute.stage)]_dispute_vars

C2_Witness ==
    /\ dispute.stage = "PreArbitration"
    /\ StageRank(event.stage) < StageRank(dispute.stage)
    /\ result = "DisputeWebhookValidationFailed"

TerminalStatus ==
    {"DisputeExpired", "DisputeAccepted", "DisputeCancelled", "DisputeWon", "DisputeLost"}

StatusOnlyForward(old, new) ==
    /\ old \in TerminalStatus => new = old
    /\ old = "DisputeChallenged" =>
          new \in {"DisputeChallenged", "DisputeWon", "DisputeLost"}

\* C3 as stated: over every accepted step the stored status only moves
\* forward (a terminal status never changes, Challenged only goes to Won or
\* Lost), whatever happens to the stage.
C3_StatusMonotonicAcrossStages ==
    [][StatusOnlyForward(dispute.status, dispute'.status)]_dispute_vars

\* C3 amended: the stored status only moves forward over every accepted step
\* that keeps the stage; a step that advances the stage may store any status.
C3_StatusMonotonicWithinStage ==
    [][dispute'.stage = dispute.stage
          => StatusOnlyForward(dispute.status, dispute'.status)]_dispute_vars

C3_Witness ==
    /\ result = "Ok"
    /\ prev.stage = "Dispute" /\ dispute.stage = "Dispute"
    /\ prev.status = "DisputeChallenged" /\ dispute.status = "DisputeWon"

\* C4: a rejected delivery adds exactly 1 to the failure metric, returns
\* DisputeWebhookValidationFailed and leaves the stored state unchanged; an
\* accepted delivery adds nothing and returns no error.
C4_RejectCountsOnceAndKeepsState ==
    [][IF Accepts(dispute, event')
       THEN metric' = metric /\ result' = "Ok"
       ELSE /\ metric' = metric + 1
            /\ result' = "DisputeWebhookValidationFailed"
            /\ dispute' = dispute]_dispute_vars

C4_Witness ==
    /\ result = "DisputeWebhookValidationFailed"
    /\ metric = 2
    /\ dispute = prev
    /\ dispute # event

\* C5: validate_dispute_stage accepts exactly the stage moves
\* PreDispute -> any, Dispute -> Dispute | PreArbitration,
\* PreArbitration -> PreArbitration.
AllowedStageMoves ==
    {<<"PreDispute", "PreDispute">>, <<"PreDispute", "Dispute">>,
     <<"PreDispute", "PreArbitration">>,
     <<"Dispute", "Dispute">>, <<"Dispute", "PreArbitration">>,
     <<"PreArbitration", "PreArbitration">>}

C5_StageMovesExact ==
    /\ \A p, s \in DisputeStage :
          validate_dispute_stage(p, s) <=> <<p, s>> \in AllowedStageMoves
    /\ (Delivered /\ result = "Ok") => <<prev.stage, event.stage>> \in AllowedStageMoves
    /\ (Delivered /\ event.stage # prev.stage
          /\ <<prev.stage, event.stage>> \in AllowedStageMoves) => result = "Ok"

C5_Witness ==
    /\ prev.stage = "Dispute" /\ event.stage = "PreArbitration"
    /\ result = "Ok" /\ dispute.stage = "PreArbitration"

\* C6: validate_dispute_status accepts exactly the status moves Opened -> any,
\* Challenged -> Challenged | Won | Lost, and each of Expired, Accepted,
\* Cancelled, Won, Lost only to itself.
AllowedStatusMoves ==
    {<<"DisputeOpened", t>> : t \in DisputeStatus}
    \cup {<<"DisputeChallenged", t>> :
             t \in {"DisputeChallenged", "DisputeWon", "DisputeLost"}}
    \cup {<<t, t>> : t \in TerminalStatus}

C6_StatusMovesExact ==
    /\ \A p, s \in DisputeStatus :
          validate_dispute_status(p, s) <=> <<p, s>> \in AllowedStatusMoves
    /\ (Delivered /\ event.stage = prev.stage) =>
          ((result = "Ok") <=> <<prev.status, event.status>> \in AllowedStatusMoves)

C6_Witness ==
    /\ event.stage = prev.stage
    /\ prev.status = "DisputeLost" /\ event.status = "DisputeWon"
    /\ result = "DisputeWebhookValidationFailed"

\* C7: an event whose stage differs from the stored stage and passes the
\* stage check is accepted for every previous and proposed status.
C7_StatusIgnoredOnStageChange ==
    /\ (Delivered /\ event.stage # prev.stage
          /\ validate_dispute_stage(prev.stage, event.stage))
          => (result = "Ok" /\ dispute = event)
    /\ \A p, e \in DisputeState :
          (e.stage # p.stage /\ validate_dispute_stage(p.stage, e.stage))
              => Verdict(p, e) = "Ok"

C7_Witness ==
    /\ prev = St("PreDispute", "DisputeWon")
    /\ event = St("Dispute", "DisputeOpened")
    /\ result = "Ok"
    /\ dispute = event

\* C8: an event proposing a stage earlier than the stored stage is rejected
\* for all previous and proposed statuses.
C8_EarlierStageRejected ==
    /\ (Delivered /\ StageRank(event.stage) < StageRank(prev.stage))
          => (result = "DisputeWebhookValidationFailed" /\ dispute = prev)
    /\ \A p, e \in DisputeState :
          StageRank(e.stage) < StageRank(p.stage)
              => Verdict(p, e) = "DisputeWebhookValidationFailed"

C8_Witness ==
    /\ prev.stage = "Dispute" /\ event.stage = "PreDispute"
    /\ prev.status = "DisputeOpened"
    /\ result = "DisputeWebhookValidationFailed"
    /\ dispute = prev

\* ------------------------------------------------------ Payme status maps
\* The attempt status the specification gives for each raw sale status.
ExpectedAttemptStatus ==
    [s \in SaleStatus |->
        CASE s = "Initial" -> "Authorizing"
          [] s = "Completed" -> "Charged"
          [] s = "Refunded" -> "AutoRefunded"
          [] s = "PartialRefund" -> "AutoRefunded"
          [] s = "Authorized" -> "Authorized"
          [] s = "Voided" -> "Voided"
          [] s = "PartialVoid" -> "Voided"
          [] s = "Failed" -> "Failure"
          [] s = "Chargeback" -> "AutoRefunded"]

\* C9: the conversion SaleStatus -> AttemptStatus is total and never fails:
\* each of the nine raw statuses has the one image the specification lists,
\* and that image is the status of the record a payment conversion returns.
C9_AttemptStatusTotal ==
    /\ \A s \in SaleStatus : AttemptStatus_from(s) = ExpectedAttemptStatus[s]
    /\ op = "PaymePaySaleResponse" =>
          (out.ok /\ out.val.status = ExpectedAttemptStatus[resp.body.sale_status])
    /\ (op = "SaleQueryResponse" /\ resp.body.items # <<>>) =>
          (out.ok /\ out.val.status
                        = ExpectedAttemptStatus[resp.body.items[1].sale_status])

C9_Witness ==
    /\ op = "PaymePaySaleResponse"
    /\ resp.body.sale_status = "Chargeback"
    /\ out.ok
    /\ out.val.status = "AutoRefunded"

\* The refund status the specification gives for each raw sale status.
ExpectedRefundStatus ==
    [s \in SaleStatus |->
        CASE s \in {"Refunded", "PartialRefund"} -> Ok("Success")
          [] s = "Failed" -> Ok("Failure")
          [] OTHER -> Err("ResponseHandlingFailed")]

\* What a refund conversion must return for the raw status it reads: the
\* record with the mapped refund status, or the error and no record.
RefundOutcomeAsSpecified(s) ==
    IF ExpectedRefundStatus[s].ok
    THEN /\ out.ok
         /\ out.val.response.ok
         /\ out.val.response.val.refund_status = ExpectedRefundStatus[s].val
    ELSE out = Err("ResponseHandlingFailed")

\* C10: SaleStatus -> RefundStatus is Success exactly for Refunded and
\* PartialRefund, Failure exactly for Failed, and ResponseHandlingFailed for
\* the six other statuses; the refund-execute and refund-sync conversions
\* then return that error and no record.
C10_RefundStatusPartial ==
    /\ \A s \in SaleStatus : RefundStatus_try_from(s) = ExpectedRefundStatus[s]
    /\ op = "PaymeRefundResponse" => RefundOutcomeAsSpecified(resp.body.sale_status)
    /\ (op = "PaymeQueryTransactionResponse" /\ resp.body.items # <<>>)
          => RefundOutcomeAsSpecified(resp.body.items[1].sale_status)

C10_Witness ==
    /\ op = "PaymeQueryTransactionResponse"
    /\ Len(resp.body.items) = 2
    /\ resp.body.items[1].sale_status = "Chargeback"
    /\ resp.body.items[2].sale_status = "Refunded"
    /\ out = Err("ResponseHandlingFailed")

\* ------------------------------------------------------ list-query replies
\* C11: a list-query reply with zero items makes the payment-sync and the
\* refund-sync conversion return ResponseHandlingFailed and no record; the
\* empty reply is never answered with the previous record.
C11_EmptyListIsError ==
    /\ (op = "SaleQueryResponse" /\ resp.body.items = <<>>)
          => (out = Err("ResponseHandlingFailed") /\ out # Ok(data))
    /\ (op = "PaymeQueryTransactionResponse" /\ resp.body.items = <<>>)
          => (out = Err("ResponseHandlingFailed") /\ out # Ok(data))

C11_Witness ==
    /\ op = "SaleQueryResponse"
    /\ resp.body.items = <<>>
    /\ data.response.ok
    /\ out = Err("ResponseHandlingFailed")

\* The reply that keeps only the first item of the reply converted.
FirstItemOnly == [response |-> [items |-> <<resp.body.items[1]>>], data |-> data]

\* C12: with one or more items the result is built from the first item only:
\* status and resource id (payment sync), refund status and connector refund
\* id (refund sync) are the first item's, and the result equals the result
\* for the reply cut down to its first item.
C12_FirstItemOnly ==
    /\ (op = "SaleQueryResponse" /\ resp.body.items # <<>>) =>
          /\ out.ok
          /\ out.val.status = AttemptStatus_from(resp.body.items[1].sale_status)
          /\ out.val.response.ok
          /\ out.val.response.val.resource_id
                = [ConnectorTransactionId |-> resp.body.items[1].sale_payme_id]
          /\ out = RouterData_try_from_SaleQueryResponse(FirstItemOnly)
    /\ (op = "PaymeQueryTransactionResponse" /\ resp.body.items # <<>>) =>
          /\ out.ok = RefundStatus_try_from(resp.body.items[1].sale_status).ok
          /\ out.ok =>
                /\ out.val.response.ok
                /\ out.val.response.val.refund_status
                      = RefundStatus_try_from(resp.body.items[1].sale_status).val
                /\ out.val.response.val.connector_refund_id
                      = resp.body.items[1].payme_transaction_id
          /\ out = RouterData_try_from_PaymeQueryTransactionResponse(FirstItemOnly)

C12_Witness ==
    /\ op = "PaymeQueryTransactionResponse"
    /\ Len(resp.body.items) = 2
    /\ resp.body.items[1] = [sale_status |-> "Refunded", payme_transaction_id |-> "txn_2"]
    /\ resp.body.items[2] = [sale_status |-> "Failed", payme_transaction_id |-> "txn_1"]
    /\ out.ok
    /\ out.val.response.val = RefundsResponseData("txn_2", "Success")

\* ------------------------------------------------------ merge into the record
\* The mandate reference and the metadata slot of the previous record.
PrevMandate ==
    IF data.response.ok THEN data.response.val.mandate_reference ELSE None

PrevMetadata ==
    IF data.response.ok THEN data.response.val.connector_metadata ELSE None

\* The fields of the result outside status and response are the previous ones.
OutsideSlotRetained ==
    [out.val EXCEPT !.status = data.status, !.response = data.response] = data

C16_TransactionIdInMetadata ==
    op = "PaymePaySaleResponse" =>
        /\ out.ok
        /\ out.val.response.val.connector_metadata
              = Some([json_object |->
                        [payme_transaction_id |-> resp.body.payme_transaction_id]])
        /\ RouterData_from_PaymePaySaleResponse_with(
               ResponseRouterData, Err("serde_json::Error"))
              = Err("ResponseHandlingFailed")

C16_Witness ==
    /\ op = "PaymePaySaleResponse"
    /\ resp.body.payme_transaction_id = "txn_2"
    /\ PrevMetadata = Some([json_object |-> [payme_transaction_id |-> "txn_0"]])
    /\ out.ok
    /\ out.val.response.val.connector_metadata
          = Some([json_object |-> [payme_transaction_id |-> "txn_2"]])

\* ------------------------------------------------------ inbound payloads
\* C15: converting a webhook body into PaymePaySaleResponse keeps
\* sale_status, payme_sale_id and payme_transaction_id and carries buyer_key
\* over as received.
C15_WebhookProjectionPreserves ==
    op = "WebhookEventDataResource" =>
        /\ out.sale_status = resp.body.sale_status
        /\ out.payme_sale_id = resp.body.payme_sale_id
        /\ out.payme_transaction_id = resp.body.payme_transaction_id
        /\ out.buyer_key = resp.body.buyer_key

C15_Witness ==
    /\ op = "WebhookEventDataResource"
    /\ resp.body.buyer_key = Some("buyer_key_1")
    /\ resp.body.sale_status = "PartialRefund"
    /\ out.buyer_key = Some("buyer_key_1")
    /\ out.sale_status = "PartialRefund"

ParsesAsPaySale == PaymePaySaleResponse_deserialize(resp.body).ok

ParsesAsSaleQuery == SaleQueryResponse_deserialize(resp.body).ok

\* C17: the resolver takes the pay-sale shape when the payload parses as it,
\* else the list-query shape when the payload parses as that, and runs the
\* conversion of the shape taken; a payload matching neither shape fails
\* with ResponseHandlingFailed.
C17_ResolverOrder ==
    op = "PaymePaymentsResponse" =>
        out = IF ParsesAsPaySale
              THEN RouterData_try_from_PaymePaySaleResponse(
                       [response |-> PaymePaySaleResponse_deserialize(resp.body).val,
                        data |-> data])
              ELSE IF ParsesAsSaleQuery
              THEN RouterData_try_from_SaleQueryResponse(
                       [response |-> SaleQueryResponse_deserialize(resp.body).val,
                        data |-> data])
              ELSE Err("ResponseHandlingFailed")

C17_Witness ==
    /\ op = "PaymePaymentsResponse"
    /\ ParsesAsPaySale
    /\ ParsesAsSaleQuery
    /\ resp.body.items # Some(<<>>)
    /\ out.ok
    /\ out.val.response.val.resource_id
          = [ConnectorTransactionId |-> resp.body.payme_sale_id[1]]
    /\ out.val.response.val.connector_metadata # None

\* C18: no payload parses both as PaymePaySaleResponse and as
\* SaleQueryResponse.
C18_ShapesDisjoint ==
    op = "PaymePaymentsResponse" => ~(ParsesAsPaySale /\ ParsesAsSaleQuery)

\* ------------------------------------------------------ reference ids
\* C19: with a supplied id longer than MAX_ID_LENGTH get_or_generate_id
\* returns InvalidDataFormat naming the key; with a supplied id of at most
\* MAX_ID_LENGTH characters it returns that id unchanged.
C19_SuppliedIdValidated ==
    (id_ret # None /\ id_call.provided_id # None) =>
        IF Len(id_call.provided_id[1]) > MAX_ID_LENGTH
        THEN /\ ~id_ret[1].ok
             /\ DOMAIN id_ret[1].err = {"InvalidDataFormat"}
             /\ id_ret[1].err.InvalidDataFormat.field_name = id_call.key
        ELSE id_ret[1] = Ok(id_call.provided_id[1])

C19_Witness ==
    /\ id_ret # None
    /\ id_call.key = "refund_id"
    /\ id_call.provided_id = Some(Repeat("b", MAX_ID_LENGTH + 1))
    /\ ~id_ret[1].ok
    /\ id_ret[1].err.InvalidDataFormat.field_name = "refund_id"

\* C20 as stated: with no id supplied the generated id has exactly
\* Len(prefix) + ID_LENGTH characters.
C20_GeneratedLengthPrefixPlusFixed ==
    (id_ret # None /\ id_call.provided_id = None) =>
        /\ id_ret[1].ok
        /\ Len(id_ret[1].val) = Len(id_call.prefix) + ID_LENGTH

\* C20 amended: with no id supplied the generated id is the prefix, one '_'
\* separator and ID_LENGTH further characters: Len(prefix) + 1 + ID_LENGTH.
C20_GeneratedLengthWithSeparator ==
    (id_ret # None /\ id_call.provided_id = None) =>
        /\ id_ret[1].ok
        /\ Len(id_ret[1].val) = Len(id_call.prefix) + 1 + ID_LENGTH
        /\ SubSeq(id_ret[1].val, 1, Len(id_call.prefix) + 1)
              = id_call.prefix \o <<"_">>

C20_Witness ==
    /\ id_ret # None
    /\ id_call.provided_id = None
    /\ id_call.prefix = <<"r", "e", "f">>
    /\ id_ret[1].ok
    /\ Len(id_ret[1].val) = ID_LENGTH + 4


\* C21: generation never fails.  Once get_or_generate_id or
\* get_or_generate_uuid has returned from a call with no supplied id, the
\* result is Ok, whatever the key and the prefix; a returned error means an
\* id was supplied.
C21_GenerationNeverFails ==
    /\ (id_ret # None /\ id_call.provided_id = None) => id_ret[1].ok
    /\ (uuid_ret # None /\ uuid_call.provided_id = None) => uuid_ret[1].ok
    /\ (id_ret # None /\ ~id_ret[1].ok) => id_call.provided_id # None
    /\ (uuid_ret # None /\ ~uuid_ret[1].ok) => uuid_call.provided_id # None

C21_Witness ==
    /\ id_ret # None
    /\ id_call.provided_id = None
    /\ id_call.prefix = <<"p", "a", "y", "_", "x">>
    /\ id_ret[1].ok
    /\ uuid_ret # None
    /\ uuid_call.provided_id = None
    /\ uuid_ret[1].ok

\* C22: a supplied uuid-typed id comes back unchanged exactly when it parses
\* as a UUID and has at most MAX_ID_LENGTH characters; in every other case
\* the result is InvalidDataFormat with the key as field name and the
\* expected format text.
C22_UuidValidated ==
    (uuid_ret # None /\ uuid_call.provided_id # None) =>
        LET id == uuid_call.provided_id[1]
        IN  /\ uuid_ret[1] = validate_uuid(id, uuid_call.key)
            /\ IF Uuid_parse_str(id).ok /\ Len(id) <= MAX_ID_LENGTH
               THEN uuid_ret[1] = Ok(id)
               ELSE /\ ~uuid_ret[1].ok
                    /\ DOMAIN uuid_ret[1].err = {"InvalidDataFormat"}
                    /\ uuid_ret[1].err.InvalidDataFormat.field_name = uuid_call.key
                    /\ uuid_ret[1].err.InvalidDataFormat.expected_format
                          = <<"length should be less than ", MAX_ID_LENGTH, " characters">>

C22_Witness ==
    /\ uuid_ret # None
    /\ uuid_call.key = "payment_id"
    /\ uuid_call.provided_id = Some(Hyphenated("g"))
    /\ Len(uuid_call.provided_id[1]) <= MAX_ID_LENGTH
    /\ ~uuid_ret[1].ok
    /\ uuid_ret[1].err.InvalidDataFormat.field_name = "payment_id"

\* C23: no two distinct dispute states accept each other.  For distinct A
\* and B, if the validator accepts B against stored A it rejects A against
\* stored B; and whenever the delivered event is such a stale A (the stored
\* state B is acceptable after it), the delivery is rejected with
\* DisputeWebhookValidationFailed and the stored state stays B.
C23_StaleEventRejected ==
    /\ \A a, b \in DisputeState :
          (a # b /\ Verdict(a, b) = "Ok") =>
              Verdict(b, a) = "DisputeWebhookValidationFailed"
    /\ (Delivered /\ event # prev /\ Verdict(event, prev) = "Ok") =>
          /\ result = "DisputeWebhookValidationFailed"
          /\ dispute = prev

C23_Witness ==
    /\ prev = St("Dispute", "DisputeChallenged")
    /\ event = St("PreDispute", "DisputeOpened")
    /\ Verdict(event, prev) = "Ok"
    /\ result = "DisputeWebhookValidationFailed"
    /\ dispute = St("Dispute", "DisputeChallenged")

\* C24: duplicate delivery is idempotent.  There are 21 dispute states; for
\* each of them the validator accepts an event equal to the stored state and
\* adds nothing to the metric, and a delivery of an event equal to the stored
\* state returns no error and leaves the stored state as it was.
C24_DuplicateAccepted ==
    /\ Cardinality(DisputeState) = 21
    /\ \A s \in DisputeState :
          validate_dispute_stage_and_dispute_status(s.stage, s.status, s.stage, s.status)
              = [res |-> "Ok", add |-> 0]
    /\ (Delivered /\ event = prev) =>
          /\ result = "Ok"
          /\ dispute = prev

C24_Witness ==
    /\ Delivered
    /\ prev = St("PreArbitration", "DisputeLost")
    /\ event = prev
    /\ result = "Ok"
    /\ dispute = prev
    /\ metric = 0

\* C25: the accepted-transition relation is transitive.  Whenever an event B
\* has been accepted against a stored state A, every state C the validator
\* accepts against B it also accepts against A.
C25_AcceptanceTransitive ==
    (Delivered /\ result = "Ok") =>
        \A c \in DisputeState :
            Verdict(event, c) = "Ok" => Verdict(prev, c) = "Ok"

C25_Witness ==
    /\ result = "Ok"
    /\ prev = St("PreDispute", "DisputeChallenged")
    /\ event = St("Dispute", "DisputeOpened")
    /\ dispute = event
    /\ Verdict(event, St("Dispute", "DisputeLost")) = "Ok"
    /\ Verdict(prev, St("Dispute", "DisputeLost")) = "Ok"

\* C26: with the events of different records validated concurrently, the
\* failure metric always equals the number of rejections whose closure has
\* run, and when every validation has returned it equals the number of
\* rejected events; records whose event was accepted add nothing.
RejectedTasks == {r \in Records : tasks[r].result = "DisputeWebhookValidationFailed"}

ReturnedTasks == {r \in Records : tasks[r].pc = "done"}

C26_CounterEqualsRejections ==
    (tasks # <<>>) =>
        /\ metric = Cardinality(RejectedTasks \cap ReturnedTasks)
        /\ (ReturnedTasks = Records) => metric = Cardinality(RejectedTasks)

C26_Witness ==
    /\ tasks # <<>>
    /\ ReturnedTasks = Records
    /\ tasks[1].result = "DisputeWebhookValidationFailed"
    /\ tasks[2].result = "DisputeWebhookValidationFailed"
    /\ metric = 2

\* C27: on the webhook-push path the resulting record has the attempt status
\* that is the image of sale_status and the resource id payme_sale_id; with
\* a buyer key in the reply its mandate reference has that key as connector
\* mandate id and no payment method id, and without one it has no mandate
\* reference.
C27_WebhookPushFields ==
    op = "PaymePaySaleResponse" =>
        /\ out.ok
        /\ out.val.status = AttemptStatus_from(resp.body.sale_status)
        /\ out.val.response.ok
        /\ out.val.response.val.resource_id
              = [ConnectorTransactionId |-> resp.body.payme_sale_id]
        /\ IF resp.body.buyer_key # None
           THEN out.val.response.val.mandate_reference
                  = Some([connector_mandate_id |-> Some(resp.body.buyer_key[1]),
                          payment_method_id |-> None])
           ELSE out.val.response.val.mandate_reference = None

C27_Witness ==
    /\ op = "PaymePaySaleResponse"
    /\ resp.body.buyer_key = Some("buyer_key_1")
    /\ resp.body.payme_sale_id = "sale_2"
    /\ resp.body.sale_status = "Completed"
    /\ out.ok
    /\ out.val.status = "Charged"
    /\ out.val.response.val.resource_id = [ConnectorTransactionId |-> "sale_2"]
    /\ out.val.response.val.mandate_reference[1].connector_mandate_id
          = Some("buyer_key_1")

\* C28: a conversion that returns a record leaves merchant id, payment id,
\* attempt id and connector name as they were in the previous record, on the
\* webhook path, the list-query path, the refund-execute path and the
\* refund-sync path; the two refund conversions also leave the attempt
\* status as it was, so that only the response slot differs.
IdentityFields == {"merchant_id", "payment_id", "attempt_id", "connector"}

RefundOps == {"PaymeRefundResponse", "PaymeQueryTransactionResponse"}

C28_IdentityFieldsUnchanged ==
    (op \in {"PaymePaySaleResponse", "SaleQueryResponse"} \cup RefundOps /\ out.ok) =>
        /\ IdentityFields \subseteq DOMAIN out.val
        /\ \A f \in IdentityFields : out.val[f] = data[f]
        /\ op \in RefundOps =>
              /\ out.val.status = data.status
              /\ [out.val EXCEPT !.response = data.response] = data

C28_Witness ==
    /\ op = "PaymeRefundResponse"
    /\ out.ok
    /\ data.payment_id = "pay_2"
    /\ out.val.payment_id = "pay_2"
    /\ data.status = "Charged"
    /\ out.val.status = "Charged"
    /\ out.val.response # data.response

====
